---- MODULE Spec2Model ----
(***************************************************************************)
(* Model of fixproto3 (src/src/index.ts): renumbering of protobuf3 message *)
(* field tags.  Texts are sequences of one-character strings; offsets are  *)
(* 0-based as in the source (At(t, i) is t[i] of the source).              *)
(*                                                                         *)
(* Four specifications share the module:                                   *)
(*   SpecBrace    findMatchingBrace, one loop iteration per step           *)
(*   SpecRenumber renumberMessageBody applied to bodies built from lines   *)
(*   Spec         processProtoText, one loop iteration per step, run a     *)
(*                second time on its own output (the tool run again on the *)
(*                file it has just written)                                *)
(*   SpecTotal    SpecBrace and Spec side by side, for the claims about    *)
(*                both functions running to their end                      *)
(***************************************************************************)
EXTENDS Integers, Sequences, FiniteSets, TLC

VARIABLES pc, text, openPos, scan, lastIndex, ranges, idx, result, anyChange,
          body, newBody, pass, lines

vars == <<pc, text, openPos, scan, lastIndex, ranges, idx, result, anyChange,
          body, newBody, pass, lines>>

----------------------------------------------------------------------------
(* Bounds of the model *)

\* SpecBrace: number of characters after the opening brace
MaxScanLen == 4

----------------------------------------------------------------------------
(* Characters and character classes of the two regular expressions *)

Lower == {"a", "b", "c", "d", "e", "f", "g", "h", "i", "j", "k", "l", "m",
          "n", "o", "p", "q", "r", "s", "t", "u", "v", "w", "x", "y", "z"}

Upper == {"A", "B", "C", "D", "E", "F", "G", "H", "I", "J", "K", "L", "M",
          "N", "O", "P", "Q", "R", "S", "T", "U", "V", "W", "X", "Y", "Z"}

\* \d
Digit == {"0", "1", "2", "3", "4", "5", "6", "7", "8", "9"}

\* \w
WordCh == Lower \cup Upper \cup Digit \cup {"_"}

\* [A-Za-z_]
IdentStart == Lower \cup Upper \cup {"_"}

\* [A-Za-z0-9_.<>]
TypeCh == WordCh \cup {".", "<", ">"}

\* \s, restricted to the ASCII white space a TLA+ string can hold
WhiteSpace == {" ", "\t", "\n", "\r", "\f"}

\* the characters after which ^ matches under the m flag (ASCII ones)
LineTerminator == {"\n", "\r"}

\* t[i] of the source, "" (undefined / falsy) outside the text
At(t, i) == IF i >= 0 /\ i < Len(t) THEN t[i + 1] ELSE ""

Min(a, b) == IF a < b THEN a ELSE b

\* String.prototype.slice(a, b) for a, b >= 0: clamps to the length
Slice(t, a, b) == SubSeq(t, Min(a, Len(t)) + 1, Min(b, Len(t)))

\* String.prototype.slice(a)
SliceFrom(t, a) == SubSeq(t, Min(a, Len(t)) + 1, Len(t))

\* all sequences over S of length at most n
SeqsUpTo(S, n) == UNION {[1..k -> S] : k \in 0..n}

----------------------------------------------------------------------------
(* findMatchingBrace *)

\* the locals of findMatchingBrace on entry
ScanInit(open) ==
    [i |-> open, depth |-> 0,
     inSingleLineComment |-> FALSE, inMultiLineComment |-> FALSE,
     inDoubleQuote |-> FALSE, inSingleQuote |-> FALSE,
     done |-> FALSE, ret |-> -1]

Normal(s) ==
    /\ ~s.inSingleLineComment
    /\ ~s.inMultiLineComment
    /\ ~s.inDoubleQuote
    /\ ~s.inSingleQuote

\* a mutation of BraceCount: the return test is off by one (depth < 0)
BraceCountLate(s, ch) ==
    IF ch = "{"
    THEN [s EXCEPT !.depth = s.depth + 1, !.i = s.i + 1]
    ELSE IF ch = "}"
         THEN IF s.depth - 1 < 0
              THEN [s EXCEPT !.depth = s.depth - 1, !.done = TRUE, !.ret = s.i]
              ELSE [s EXCEPT !.depth = s.depth - 1, !.i = s.i + 1]
         ELSE [s EXCEPT !.i = s.i + 1]

\* Normal mode, no comment or string starts here: the brace counting
BraceCount(s, ch) ==
    IF ch = "{"
    THEN [s EXCEPT !.depth = s.depth + 1, !.i = s.i + 1]
    ELSE IF ch = "}"
         THEN IF s.depth - 1 = 0
              THEN [s EXCEPT !.depth = 0, !.done = TRUE, !.ret = s.i]
              ELSE [s EXCEPT !.depth = s.depth - 1, !.i = s.i + 1]
         ELSE [s EXCEPT !.i = s.i + 1]

\* a mutation of InLineComment: braces inside a line comment are counted
InLineCommentCounting(s, ch) ==
    IF ch = "{" \/ ch = "}"
    THEN BraceCount(s, ch)
    ELSE [s EXCEPT !.inSingleLineComment = (ch # "\n"), !.i = s.i + 1]

\* a mutation of InLineComment: a double quote inside a line comment opens a
\* string
InLineCommentQuoteAware(s, ch) ==
    [s EXCEPT !.inSingleLineComment = (ch # "\n"),
              !.inDoubleQuote = (ch = "\""), !.i = s.i + 1]

\* the branch taken inside a line comment
InLineComment(s, ch) ==
    [s EXCEPT !.inSingleLineComment = (ch # "\n"), !.i = s.i + 1]

\* one iteration of the while loop (or the return -1 when it exits)
BraceStep(t, s) ==
    LET ch   == At(t, s.i)
        next == At(t, s.i + 1)
    IN  IF ~(s.i < Len(t))
        THEN [s EXCEPT !.done = TRUE, !.ret = -1]
        ELSE IF Normal(s)
        THEN IF ch = "/" /\ next = "/"
             THEN [s EXCEPT !.inSingleLineComment = TRUE, !.i = s.i + 2]
             ELSE IF ch = "/" /\ next = "*"
             THEN [s EXCEPT !.inMultiLineComment = TRUE, !.i = s.i + 2]
             ELSE IF ch = "\""
             THEN [s EXCEPT !.inDoubleQuote = TRUE, !.i = s.i + 1]
             ELSE IF ch = "'"
             THEN [s EXCEPT !.inSingleQuote = TRUE, !.i = s.i + 1]
             ELSE BraceCount(s, ch)
        ELSE IF s.inSingleLineComment
        THEN InLineComment(s, ch)
        ELSE IF s.inMultiLineComment
        THEN IF ch = "*" /\ next = "/"
             THEN [s EXCEPT !.inMultiLineComment = FALSE, !.i = s.i + 2]
             ELSE [s EXCEPT !.i = s.i + 1]
        ELSE IF s.inDoubleQuote
        THEN IF ch = "\\" /\ next # ""
             THEN [s EXCEPT !.i = s.i + 2]
             ELSE [s EXCEPT !.inDoubleQuote = (ch # "\""), !.i = s.i + 1]
        ELSE IF ch = "\\" /\ next # ""
             THEN [s EXCEPT !.i = s.i + 2]
             ELSE [s EXCEPT !.inSingleQuote = (ch # "'"), !.i = s.i + 1]

RECURSIVE RunScan(_, _)
RunScan(t, s) == IF s.done THEN s.ret ELSE RunScan(t, BraceStep(t, s))

\* the value findMatchingBrace(text, openPos) returns
FindMatchingBrace(t, open) == RunScan(t, ScanInit(open))

----------------------------------------------------------------------------
(* The two regular expressions, matched as the engine matches them: greedy *)
(* quantifiers, alternatives in order.  Every class that follows a greedy  *)
(* run is disjoint from the run's class, so giving characters back never   *)
(* yields a match and only the ordered alternatives are tried.             *)

StartsWith(t, i, w) == i + Len(w) <= Len(t) /\ SubSeq(t, i + 1, i + Len(w)) = w

RECURSIVE SkipClass(_, _, _)
\* the offset after the longest run of characters of S starting at i
SkipClass(t, i, S) == IF At(t, i) \in S THEN SkipClass(t, i + 1, S) ELSE i

RECURSIVE SkipUntil(_, _, _)
\* the offset of the first c at or after i, Len(t) when there is none
SkipUntil(t, i, c) ==
    IF i >= Len(t) \/ At(t, i) = c THEN i ELSE SkipUntil(t, i + 1, c)

kwMessage == <<"m", "e", "s", "s", "a", "g", "e">>

kwOneof == <<"o", "n", "e", "o", "f">>

\* \b kw \s+ [A-Za-z_]\w* \s* \{ tried at offset s: the offset after the
\* "{", or -1
BlockMatchEnd(t, s, kw) ==
    LET a == SkipClass(t, s + Len(kw), WhiteSpace)
        b == SkipClass(t, a + 1, WordCh)
        c == SkipClass(t, b, WhiteSpace)
    IN  IF /\ At(t, s - 1) \notin WordCh
           /\ StartsWith(t, s, kw)
           /\ a > s + Len(kw)
           /\ At(t, a) \in IdentStart
           /\ At(t, c) = "{"
        THEN c + 1
        ELSE -1

\* a mutation of MsgMatchEnd: a oneof block is taken for a message
MsgMatchEndOneofToo(t, s) ==
    IF BlockMatchEnd(t, s, kwMessage) # -1
    THEN BlockMatchEnd(t, s, kwMessage)
    ELSE BlockMatchEnd(t, s, kwOneof)

\* msgRegex tried at offset s
MsgMatchEnd(t, s) == BlockMatchEnd(t, s, kwMessage)

RECURSIVE MsgExec(_, _)
\* msgRegex.exec(text) with lastIndex = from: the start of the leftmost match
\* at or after from, -1 (null) when there is none
MsgExec(t, from) ==
    IF from >= Len(t) THEN -1
    ELSE IF MsgMatchEnd(t, from) # -1 THEN from
    ELSE MsgExec(t, from + 1)

Labels == << <<"o", "p", "t", "i", "o", "n", "a", "l">>,
             <<"r", "e", "q", "u", "i", "r", "e", "d">>,
             <<"r", "e", "p", "e", "a", "t", "e", "d">> >>

kwMap == <<"m", "a", "p", "<">>

NoMatch == [ok |-> FALSE, start |-> 0, numStart |-> 0, numEnd |-> 0, end |-> 0]

\* a mutation of FieldTail: the tag is (\w+), not (\d+)
FieldTailAnyTag(t, s, j) ==
    LET a == SkipClass(t, j, WhiteSpace)
        b == SkipClass(t, a + 1, WordCh)
        c == SkipClass(t, b, WhiteSpace)
        d == SkipClass(t, c + 1, WhiteSpace)
        e == SkipClass(t, d, WordCh)
        f == SkipClass(t, e, WhiteSpace)
        g == SkipUntil(t, f + 1, "]")
        h == IF At(t, f) = "[" /\ g < Len(t) THEN g + 1 ELSE f
        k == SkipClass(t, h, WhiteSpace)
    IN  IF /\ a > j
           /\ At(t, a) \in IdentStart
           /\ At(t, c) = "="
           /\ e > d
           /\ At(t, k) = ";"
        THEN [ok |-> TRUE, start |-> s, numStart |-> d, numEnd |-> e,
              end |-> k + 1]
        ELSE [ok |-> FALSE, start |-> 0, numStart |-> 0, numEnd |-> 0,
              end |-> 0]

\* \s+ name \s* = \s* (\d+) (\s* (\[[^\]]*\])? \s* ;) from offset j, for a
\* match that started at s
FieldTail(t, s, j) ==
    LET a == SkipClass(t, j, WhiteSpace)
        b == SkipClass(t, a + 1, WordCh)
        c == SkipClass(t, b, WhiteSpace)
        d == SkipClass(t, c + 1, WhiteSpace)
        e == SkipClass(t, d, Digit)
        f == SkipClass(t, e, WhiteSpace)
        g == SkipUntil(t, f + 1, "]")
        h == IF At(t, f) = "[" /\ g < Len(t) THEN g + 1 ELSE f
        k == SkipClass(t, h, WhiteSpace)
    IN  IF /\ a > j
           /\ At(t, a) \in IdentStart
           /\ At(t, c) = "="
           /\ e > d
           /\ At(t, k) = ";"
        THEN [ok |-> TRUE, start |-> s, numStart |-> d, numEnd |-> e,
              end |-> k + 1]
        ELSE NoMatch

\* (?:map<[^>]+>|[A-Za-z0-9_.<>]+) and the rest of the pattern from offset p
FieldType(t, s, p) ==
    LET q    == SkipUntil(t, p + Len(kwMap), ">")
        alt1 == IF StartsWith(t, p, kwMap) /\ q > p + Len(kwMap) /\ q < Len(t)
                THEN FieldTail(t, s, q + 1)
                ELSE NoMatch
        j    == SkipClass(t, p, TypeCh)
        alt2 == IF j > p THEN FieldTail(t, s, j) ELSE NoMatch
    IN  IF alt1.ok THEN alt1 ELSE alt2

\* ^ under the m flag
LineStart(t, s) == s = 0 \/ At(t, s - 1) \in LineTerminator

\* fieldRegex tried at offset s
FieldMatchAt(t, s) ==
    LET p0   == SkipClass(t, s, WhiteSpace)
        labs == {n \in 1..Len(Labels) : StartsWith(t, p0, Labels[n])}
        withLabel ==
            IF labs = {} THEN NoMatch
            ELSE FieldType(t, s,
                     SkipClass(t, p0 + Len(Labels[CHOOSE n \in labs : TRUE]),
                               WhiteSpace))
    IN  IF ~LineStart(t, s) THEN NoMatch
        ELSE IF withLabel.ok THEN withLabel
        ELSE FieldType(t, s, p0)

RECURSIVE FieldExec(_, _)
\* the leftmost match of fieldRegex at or after offset from
FieldExec(t, from) ==
    IF from >= Len(t) THEN NoMatch
    ELSE LET m == FieldMatchAt(t, from)
         IN  IF m.ok THEN m ELSE FieldExec(t, from + 1)

RECURSIVE FieldMatchesFrom(_, _)
FieldMatchesFrom(t, from) ==
    LET m == FieldExec(t, from)
    IN  IF m.ok THEN <<m>> \o FieldMatchesFrom(t, m.end) ELSE <<>>

\* the matches String.prototype.replace visits under the g flag, in order
FieldMatches(t) == FieldMatchesFrom(t, 0)

----------------------------------------------------------------------------
(* renumberMessageBody *)

DigitChars == <<"0", "1", "2", "3", "4", "5", "6", "7", "8", "9">>

RECURSIVE StringOf(_)
\* String(n) for n >= 0
StringOf(n) ==
    IF n < 10 THEN <<DigitChars[n + 1]>>
    ELSE StringOf(n \div 10) \o <<DigitChars[(n % 10) + 1]>>

\* let counter = 1
CounterInit == 1

\* a mutation of Replacement: the old tag is kept
ReplacementKeepTag(t, m, counter) ==
    Slice(t, m.start, m.end)

\* the replace callback: p1 + String(counter) + p3
Replacement(t, m, counter) ==
    Slice(t, m.start, m.numStart) \o StringOf(counter)
        \o Slice(t, m.numEnd, m.end)

RECURSIVE ReplaceFrom(_, _, _)
\* body.replace(fieldRegex, callback) from offset from on, counter++ per match
ReplaceFrom(t, from, counter) ==
    LET m == FieldExec(t, from)
    IN  IF m.ok
        THEN Slice(t, from, m.start) \o Replacement(t, m, counter)
                 \o ReplaceFrom(t, m.end, counter + 1)
        ELSE SliceFrom(t, from)

RenumberMessageBody(b) == ReplaceFrom(b, 0, CounterInit)

----------------------------------------------------------------------------
(* processProtoText *)

RECURSIVE InsertAsc(_, _)
\* a mutation of InsertDesc: the comparison is a.open - b.open
InsertAsc(r, rs) ==
    IF rs = <<>> THEN <<r>>
    ELSE IF Head(rs).open - r.open > 0 THEN <<r>> \o rs
    ELSE <<Head(rs)>> \o InsertAsc(r, Tail(rs))

RECURSIVE InsertDesc(_, _)
InsertDesc(r, rs) ==
    IF rs = <<>> THEN <<r>>
    ELSE IF r.open - Head(rs).open > 0 THEN <<r>> \o rs
    ELSE <<Head(rs)>> \o InsertDesc(r, Tail(rs))

\* a mutation of SortDesc: the ranges are left in the order they were found
SortAsFound(rs) == rs

RECURSIVE SortDesc(_)
\* ranges.sort((a, b) => b.open - a.open)
SortDesc(rs) ==
    IF rs = <<>> THEN <<>> ELSE InsertDesc(Head(rs), SortDesc(Tail(rs)))

\* a mutation of Splice: the tail is taken one character late
SpliceLate(res, bodyStart, bodyEnd, nb) ==
    Slice(res, 0, bodyStart) \o nb \o SliceFrom(res, bodyEnd + 1)

\* result.slice(0, bodyStart) + newBody + result.slice(bodyEnd)
Splice(res, bodyStart, bodyEnd, nb) ==
    Slice(res, 0, bodyStart) \o nb \o SliceFrom(res, bodyEnd)

----------------------------------------------------------------------------
(* Spec: the documents processProtoText is run on *)

\* largest number of field lines in each of the three places of a document
MaxFields == 1

MsgA == <<"m", "e", "s", "s", "a", "g", "e", " ", "A", "{">>

MsgB == <<"\n", "m", "e", "s", "s", "a", "g", "e", " ", "B", "{">>

MsgC == <<"\n", "m", "e", "s", "s", "a", "g", "e", " ", "C", "{">>

OneofO == <<"\n", "o", "n", "e", "o", "f", " ", "o", "{">>

CloseBrace == <<"}">>

FieldHead == <<"\n", "a", " ", "b", "=">>

\* a field declaration on a line of its own, with the given tag text
FieldLine(tag) == FieldHead \o tag \o <<";">>

TagTexts == {<<"1">>, <<"1", "0">>}

RECURSIVE FieldLines(_)
FieldLines(tags) ==
    IF tags = <<>> THEN <<>>
    ELSE FieldLine(Head(tags)) \o FieldLines(Tail(tags))

\* what may follow the first message: nothing, a closed or an unclosed message
Trailers == {<<>>,
             MsgC \o FieldLine(<<"7">>) \o CloseBrace,
             MsgC \o FieldLine(<<"7">>)}

\* the block nested in the first message: none, a message or a oneof, with
\* its closing brace or without
NestedBlock(open, inner, closed) ==
    open \o FieldLines(inner) \o (IF closed THEN CloseBrace ELSE <<>>)

\* message A{ fields [nested block] fields [}] [trailer]
Document(before, nested, after, closed, trailer) ==
    MsgA \o FieldLines(before) \o nested \o FieldLines(after)
         \o (IF closed THEN CloseBrace ELSE <<>>) \o trailer

TagSeqs == SeqsUpTo(TagTexts, MaxFields)

NestedBlocks ==
    {<<>>} \cup {NestedBlock(o, inner, c) :
                    o \in {MsgB, OneofO}, inner \in TagSeqs, c \in BOOLEAN}

FamilyDocs ==
    {Document(b, n, a, c, t) :
        b \in TagSeqs, n \in NestedBlocks, a \in TagSeqs, c \in BOOLEAN,
        t \in Trailers}

\* Example 2 of the specification, on a single line
Example2Doc ==
    <<"m", "e", "s", "s", "a", "g", "e", " ", "O", "u", "t", "e", "r", " ",
      "{", " ", "m", "e", "s", "s", "a", "g", "e", " ", "I", "n", "n", "e",
      "r", " ", "{", " ", "i", "n", "t", "3", "2", " ", "x", " ", "=", " ",
      "9", ";", " ", "}", " ", "i", "n", "t", "3", "2", " ", "y", " ", "=",
      " ", "3", ";", " ", "}">>

\* an inner message of ten fields: its renumbering makes the text one longer
GrowthDoc ==
    Document(<<>>, NestedBlock(MsgB, [n \in 1..10 |-> <<"1">>], TRUE),
             << <<"1">> >>, TRUE, <<>>)

\* an inner message that grows by one character and one that shrinks by one
CancelDoc ==
    MsgA \o NestedBlock(MsgB, [n \in 1..10 |-> <<"1">>], TRUE)
         \o NestedBlock(MsgC, << <<"1", "0">> >>, TRUE)
         \o FieldLine(<<"1">>) \o CloseBrace

\* an inner message that shrinks by eight characters, and a field line after
\* the closing brace of the outer message
SpillDoc ==
    MsgA \o NestedBlock(MsgB,
                        << <<"1", "0", "0", "0", "0", "0", "0", "0", "0">> >>,
                        TRUE)
         \o CloseBrace \o FieldLine(<<"5">>)

\* a message header in a line comment of a message
CommentDoc ==
    MsgA \o <<"\n", "/", "/", "m", "e", "s", "s", "a", "g", "e", " ", "B", "{">>
         \o FieldLine(<<"1">>) \o CloseBrace

NamedDocs == {Example2Doc, GrowthDoc, CancelDoc, SpillDoc, CommentDoc}

Documents == FamilyDocs \cup NamedDocs

----------------------------------------------------------------------------
(* Spec: processProtoText step by step *)

Init ==
    /\ pc = "scan"
    /\ text \in Documents
    /\ pass = 1
    /\ openPos = 0
    /\ scan = ScanInit(0)
    /\ lastIndex = 0
    /\ ranges = <<>>
    /\ idx = 1
    /\ result = <<>>
    /\ anyChange = FALSE
    /\ body = <<>>
    /\ newBody = <<>>
    /\ lines = <<>>

\* a mutation of RecordSpan: the search resumes after the closing brace
RecordSpanPastClose ==
    /\ pc = "scan"
    /\ LET matchStart == MsgExec(text, lastIndex)
           open       == MsgMatchEnd(text, matchStart) - 1
           closePos   == FindMatchingBrace(text, open)
       IN  /\ matchStart # -1
           /\ closePos # -1
           /\ openPos' = open
           /\ ranges' = Append(ranges, [open |-> open, close |-> closePos])
           /\ lastIndex' = closePos + 1
    /\ UNCHANGED <<pc, text, scan, idx, result, anyChange, body, newBody,
                   pass, lines>>

\* a mutation of RecordSpan: the span opens at the start of the match
RecordSpanAtKeyword ==
    /\ pc = "scan"
    /\ LET matchStart == MsgExec(text, lastIndex)
           open       == MsgMatchEnd(text, matchStart) - 1
           closePos   == FindMatchingBrace(text, open)
       IN  /\ matchStart # -1
           /\ closePos # -1
           /\ openPos' = open
           /\ ranges' = Append(ranges,
                               [open |-> matchStart, close |-> closePos])
           /\ lastIndex' = matchStart + 1
    /\ UNCHANGED <<pc, text, scan, idx, result, anyChange, body, newBody,
                   pass, lines>>

\* an iteration of the while loop whose brace is matched: the span is pushed
\* and the search resumes one past the start of the match
RecordSpan ==
    /\ pc = "scan"
    /\ LET matchStart == MsgExec(text, lastIndex)
           open       == MsgMatchEnd(text, matchStart) - 1
           closePos   == FindMatchingBrace(text, open)
       IN  /\ matchStart # -1
           /\ closePos # -1
           /\ openPos' = open
           /\ ranges' = Append(ranges, [open |-> open, close |-> closePos])
           /\ lastIndex' = matchStart + 1
    /\ UNCHANGED <<pc, text, scan, idx, result, anyChange, body, newBody,
                   pass, lines>>

\* a mutation of SkipUnmatched: break instead of continue (exec finds
\* nothing from the end of the text on)
SkipUnmatchedAbort ==
    /\ pc = "scan"
    /\ LET matchStart == MsgExec(text, lastIndex)
           open       == MsgMatchEnd(text, matchStart) - 1
           closePos   == FindMatchingBrace(text, open)
       IN  /\ matchStart # -1
           /\ closePos = -1
           /\ openPos' = open
           /\ lastIndex' = Len(text)
    /\ UNCHANGED <<pc, text, scan, ranges, idx, result, anyChange, body,
                   newBody, pass, lines>>

\* a mutation of SkipUnmatched: the search resumes where it started
SkipUnmatchedStay ==
    /\ pc = "scan"
    /\ LET matchStart == MsgExec(text, lastIndex)
           open       == MsgMatchEnd(text, matchStart) - 1
           closePos   == FindMatchingBrace(text, open)
       IN  /\ matchStart # -1
           /\ closePos = -1
           /\ openPos' = open
           /\ lastIndex' = lastIndex
    /\ UNCHANGED <<pc, text, scan, ranges, idx, result, anyChange, body,
                   newBody, pass, lines>>

\* an iteration whose brace is unmatched: continue, with lastIndex where exec
\* left it (the end of the match)
SkipUnmatched ==
    /\ pc = "scan"
    /\ LET matchStart == MsgExec(text, lastIndex)
           open       == MsgMatchEnd(text, matchStart) - 1
           closePos   == FindMatchingBrace(text, open)
       IN  /\ matchStart # -1
           /\ closePos = -1
           /\ openPos' = open
           /\ lastIndex' = open + 1
    /\ UNCHANGED <<pc, text, scan, ranges, idx, result, anyChange, body,
                   newBody, pass, lines>>

\* exec returns null: the loop ends, the ranges are sorted, result = text
SortRanges ==
    /\ pc = "scan"
    /\ MsgExec(text, lastIndex) = -1
    /\ lastIndex' = 0
    /\ ranges' = SortDesc(ranges)
    /\ result' = text
    /\ anyChange' = FALSE
    /\ idx' = 1
    /\ pc' = IF ranges = <<>> THEN "done" ELSE "rewrite"
    /\ UNCHANGED <<text, openPos, scan, body, newBody, pass, lines>>

\* a mutation of RewriteSpan: the body ends at the brace that matches the
\* opening one in the working buffer, not at the stored close offset
RewriteSpanFresh ==
    /\ pc = "rewrite"
    /\ LET r         == ranges[idx]
           bodyStart == r.open + 1
           bodyEnd   == FindMatchingBrace(result, r.open)
       IN  /\ body' = Slice(result, bodyStart, bodyEnd)
           /\ newBody' = RenumberMessageBody(body')
           /\ IF newBody' # body'
              THEN /\ result' = Splice(result, bodyStart, bodyEnd, newBody')
                   /\ anyChange' = TRUE
              ELSE UNCHANGED <<result, anyChange>>
    /\ idx' = idx + 1
    /\ pc' = IF idx = Len(ranges) THEN "done" ELSE "rewrite"
    /\ UNCHANGED <<text, openPos, scan, lastIndex, ranges, pass, lines>>

\* an iteration of for (const r of ranges)
RewriteSpan ==
    /\ pc = "rewrite"
    /\ LET r         == ranges[idx]
           bodyStart == r.open + 1
           bodyEnd   == r.close
       IN  /\ body' = Slice(result, bodyStart, bodyEnd)
           /\ newBody' = RenumberMessageBody(body')
           /\ IF newBody' # body'
              THEN /\ result' = Splice(result, bodyStart, bodyEnd, newBody')
                   /\ anyChange' = TRUE
              ELSE UNCHANGED <<result, anyChange>>
    /\ idx' = idx + 1
    /\ pc' = IF idx = Len(ranges) THEN "done" ELSE "rewrite"
    /\ UNCHANGED <<text, openPos, scan, lastIndex, ranges, pass, lines>>

\* the tool is run again on the file: the main loop wrote result to it when
\* changed, and left the original otherwise
Rerun ==
    /\ pc = "done"
    /\ pass = 1
    /\ text' = IF anyChange THEN result ELSE text
    /\ pass' = 2
    /\ pc' = "scan"
    /\ lastIndex' = 0
    /\ ranges' = <<>>
    /\ idx' = 1
    /\ result' = <<>>
    /\ anyChange' = FALSE
    /\ body' = <<>>
    /\ newBody' = <<>>
    /\ UNCHANGED <<openPos, scan, lines>>

Next == RecordSpan \/ SkipUnmatched \/ SortRanges \/ RewriteSpan \/ Rerun

Spec == Init /\ [][Next]_vars

----------------------------------------------------------------------------
(* Claims about processProtoText (Spec) *)

\* the offsets at which msgRegex matches, wherever the search starts
MsgOccurrences(t) == {s \in 0..(Len(t) - 1) : MsgMatchEnd(t, s) # -1}

\* the opening brace of every message occurrence of t with what
\* findMatchingBrace returns for it
BracesOf(t) ==
    {[open  |-> MsgMatchEnd(t, s) - 1,
      close |-> FindMatchingBrace(t, MsgMatchEnd(t, s) - 1)] :
        s \in MsgOccurrences(t)}

\* the spans of the message occurrences of t whose brace is matched
SpansOf(t) == {sp \in BracesOf(t) : sp.close # -1}

\* the opening braces of the message occurrences of t that have no match
UnmatchedOpens(t) == {sp.open : sp \in {u \in BracesOf(t) : u.close = -1}}

\* the tag texts of the matched field lines of message sp of t that lie in
\* no message nested in sp, in source order
DirectTags(t, sp) ==
    LET b  == Slice(t, sp.open + 1, sp.close)
        ms == FieldMatches(b)
        Direct(m) ==
            \A inner \in SpansOf(t) :
                ~(/\ sp.open < inner.open
                  /\ inner.open < sp.open + 1 + m.numStart
                  /\ sp.open + 1 + m.numStart < inner.close)
        ds == SelectSeq(ms, Direct)
    IN  [k \in 1..Len(ds) |-> Slice(b, ds[k].numStart, ds[k].numEnd)]

\* C1 (sequentiality): in the result, the direct matched field lines of every
\* message are tagged 1, 2, ..., k in source order.
Sequentiality ==
    (pc = "done" /\ pass = 1) =>
        \A sp \in SpansOf(result) :
            LET tags == DirectTags(result, sp)
            IN  \A k \in 1..Len(tags) : tags[k] = StringOf(k)

\* C2 (idempotence): the second run, on the output of the first, returns its
\* input.
Idempotence == (pc = "done" /\ pass = 2) => result = text

\* t with the tag token of every matched field declaration replaced by "#"
RECURSIVE MaskFrom(_, _)
MaskFrom(t, from) ==
    LET m == FieldExec(t, from)
    IN  IF m.ok
        THEN Slice(t, from, m.numStart) \o <<"#">> \o Slice(t, m.numEnd, m.end)
                 \o MaskFrom(t, m.end)
        ELSE SliceFrom(t, from)

\* C5 (non-interference): an iteration of the rewrite loop changes the body
\* only inside the tag tokens of its matched field declarations, and the
\* working buffer only by putting the new body where the body was: the text
\* before it and the text after it are kept, nothing is dropped or doubled.
NonInterference ==
    [][pc = "rewrite" =>
        LET bodyStart == ranges[idx].open + 1
            bodyEnd   == ranges[idx].close
        IN  /\ MaskFrom(newBody', 0) = MaskFrom(body', 0)
            /\ Slice(result', 0, bodyStart) = Slice(result, 0, bodyStart)
            /\ Slice(result', bodyStart, bodyStart + Len(newBody')) = newBody'
            /\ SliceFrom(result', bodyStart + Len(newBody'))
                 = SliceFrom(result, bodyEnd)
            /\ Len(result') = Len(result) - Len(body') + Len(newBody')
    ]_vars

\* C5 witness: a body with two matched declarations was rewritten and spliced
\* into a buffer that has text after the body
BodyRewritten ==
    /\ pc \in {"rewrite", "done"}
    /\ pass = 1
    /\ newBody # body
    /\ Len(FieldMatches(body)) >= 2
    /\ Len(newBody) < Len(body)
    /\ Len(result) > Len(body) + Len(MsgA) + 1

Example2Expected ==
    <<"m", "e", "s", "s", "a", "g", "e", " ", "O", "u", "t", "e", "r", " ",
      "{", " ", "m", "e", "s", "s", "a", "g", "e", " ", "I", "n", "n", "e",
      "r", " ", "{", " ", "i", "n", "t", "3", "2", " ", "x", " ", "=", " ",
      "1", ";", " ", "}", " ", "i", "n", "t", "3", "2", " ", "y", " ", "=",
      " ", "1", ";", " ", "}">>

\* C7 (nested example): Example 2 is rewritten to x = 1 in Inner and y = 1 in
\* Outer.
Example2Result ==
    (pc = "done" /\ pass = 1 /\ text = Example2Doc) => result = Example2Expected

\* C8 (unmatched brace): once the scan is over, the recorded spans are those
\* of all the message occurrences whose brace is matched, each once and with
\* its matching brace, whatever unmatched occurrences the text holds; none
\* starts at an unmatched occurrence; and at the end every one of them has
\* been through the rewrite loop.
UnmatchedSkipped ==
    /\ \A k \in 1..Len(ranges) : ranges[k].close # -1
    /\ pc \in {"rewrite", "done"} =>
          LET recorded == {ranges[k] : k \in 1..Len(ranges)}
              braces   == BracesOf(text)
          IN  /\ recorded = {sp \in braces : sp.close # -1}
              /\ Len(ranges) = Cardinality(recorded)
              /\ \A u \in braces :
                    u.close = -1 => \A sp \in recorded : sp.open # u.open
    /\ pc = "done" => idx = Len(ranges) + 1

\* C8 witness: the first message is unmatched; a message nested in it and a
\* message after it were recorded and rewritten
UnmatchedAmongMatched ==
    /\ pc = "done"
    /\ pass = 1
    /\ Len(MsgA) - 1 \in UnmatchedOpens(text)
    /\ Len(ranges) = 2
    /\ anyChange

\* the opening braces of the oneof blocks of t
OneofOpens(t) ==
    {BlockMatchEnd(t, s, kwOneof) - 1 :
        s \in {o \in 0..(Len(t) - 1) : BlockMatchEnd(t, o, kwOneof) # -1}}

\* C10 (oneof): no oneof block is a span, no matched declaration holds a
\* oneof opening, and in a body with a oneof block all matched declarations,
\* those between the braces of the oneof included, are numbered 1, 2, ...
\* in source order by the one counter.
OneofSharesCounter ==
    /\ \A k \in 1..Len(ranges) : ranges[k].open \notin OneofOpens(text)
    /\ OneofOpens(body) # {} =>
          LET old == FieldMatches(body)
              ms  == FieldMatches(newBody)
          IN  /\ \A k \in 1..Len(old) : \A o \in OneofOpens(body) :
                    ~(old[k].start <= o /\ o < old[k].end)
              /\ Len(ms) = Len(old)
              /\ \A k \in 1..Len(ms) :
                    Slice(newBody, ms[k].numStart, ms[k].numEnd) = StringOf(k)

\* C10 witness: a field before the oneof, one between its braces and one
\* after it were numbered 1, 2, 3
OneofMemberNumbered ==
    /\ pc = "done"
    /\ pass = 1
    /\ newBody # body
    /\ LET ms == FieldMatches(newBody)
       IN  /\ Len(ms) = 3
           /\ \E o \in OneofOpens(newBody) :
                 /\ ms[1].end <= o
                 /\ o < ms[2].start
                 /\ ms[2].end <= FindMatchingBrace(newBody, o)
                 /\ FindMatchingBrace(newBody, o) < ms[3].numStart

----------------------------------------------------------------------------
(* Claims about the rewrite loop of processProtoText (Spec) *)

\* span inner opens between the braces of span outer
Inside(inner, outer) == outer.open < inner.open /\ inner.open < outer.close

RECURSIVE BufferAfter(_, _, _)
\* result after the first k iterations of for (const r of rs), from result = t
BufferAfter(t, rs, k) ==
    IF k = 0 THEN t
    ELSE LET prev == BufferAfter(t, rs, k - 1)
             b    == Slice(prev, rs[k].open + 1, rs[k].close)
             nb   == RenumberMessageBody(b)
         IN  IF nb # b
             THEN Splice(prev, rs[k].open + 1, rs[k].close, nb)
             ELSE prev

\* by how much iteration j changed the length of the buffer
GrowthAt(t, rs, j) ==
    Len(BufferAfter(t, rs, j)) - Len(BufferAfter(t, rs, j - 1))

RECURSIVE InnerGrowth(_, _, _, _)
\* the sum of the length changes made by the iterations 1..j that processed
\* a span inside rs[k]
InnerGrowth(t, rs, k, j) ==
    IF j = 0 THEN 0
    ELSE InnerGrowth(t, rs, k, j - 1)
             + (IF Inside(rs[j], rs[k]) THEN GrowthAt(t, rs, j) ELSE 0)

ProcessingOrder ==
    /\ pc \in {"rewrite", "done"} =>
          \A j, k \in 1..Len(ranges) :
              j < k => ranges[j].open > ranges[k].open
    /\ pc = "rewrite" =>
          \A j \in 1..Len(ranges) :
              Inside(ranges[j], ranges[idx]) => j < idx

\* C13 witness: the loop is about to take the body of a span whose inner
\* span it has rewritten
InnerRewrittenFirst ==
    /\ pc = "rewrite"
    /\ pass = 1
    /\ idx = 2
    /\ Inside(ranges[1], ranges[2])
    /\ anyChange

\* C15 (nested discovery): while the text is searched, every message
\* occurrence that starts before lastIndex and has a matching brace is in the
\* list, once; when the search is over that holds for every occurrence of the
\* text, those between the braces of another message included.
NestedDiscovery ==
    LET Recorded(s) ==
            LET sp == [open  |-> MsgMatchEnd(text, s) - 1,
                       close |-> FindMatchingBrace(text,
                                                   MsgMatchEnd(text, s) - 1)]
            IN  sp.close # -1 =>
                    Cardinality({k \in 1..Len(ranges) : ranges[k] = sp}) = 1
        Below(n) == {s \in 0..(n - 1) : MsgMatchEnd(text, s) # -1}
    IN  /\ pc = "scan" => \A s \in Below(lastIndex) : Recorded(s)
        /\ pc \in {"rewrite", "done"} => \A s \in Below(Len(text)) : Recorded(s)

\* C15 witness: the search has recorded a message and, after it, a message
\* between its braces
NestedSpanRecorded ==
    /\ pc = "scan"
    /\ pass = 1
    /\ Len(ranges) = 2
    /\ Inside(ranges[2], ranges[1])
    /\ ranges[2].close < ranges[1].close

\* C16 (span well-formedness): every recorded span has open < close, "{" at
\* open and "}" at close in the text searched, close being what
\* findMatchingBrace returns for open; the body taken for the first span
\* processed, when the buffer is still the text, is the close - open - 1
\* characters between the two.
SpanWellFormed ==
    /\ \A k \in 1..Len(ranges) :
          /\ ranges[k].open < ranges[k].close
          /\ At(text, ranges[k].open) = "{"
          /\ At(text, ranges[k].close) = "}"
          /\ FindMatchingBrace(text, ranges[k].open) = ranges[k].close
    /\ (pc \in {"rewrite", "done"} /\ idx = 2) =>
          /\ body = SubSeq(text, ranges[1].open + 2, ranges[1].close)
          /\ Len(body) = ranges[1].close - ranges[1].open - 1

\* C16 witness: three spans were recorded and the body of the first one
\* processed, which is not empty, has been taken
FirstBodyTaken ==
    /\ pc = "rewrite"
    /\ pass = 1
    /\ idx = 2
    /\ Len(ranges) = 3
    /\ Len(body) > 0

\* C17 (change flag): changed is true exactly when the result differs from
\* the text processProtoText was given.
ChangeFlagFaithful == pc = "done" => (anyChange <=> result # text)

\* the least open and the greatest close offset of the recorded spans
FirstOpen == CHOOSE o \in {ranges[k].open : k \in 1..Len(ranges)} :
                 \A k \in 1..Len(ranges) : o <= ranges[k].open

LastClose == CHOOSE c \in {ranges[k].close : k \in 1..Len(ranges)} :
                 \A k \in 1..Len(ranges) : c >= ranges[k].close

\* C18 (text outside message bodies): in particular the text up to the first
\* opening brace and the text from the last closing brace on are the same in
\* the result as in the text.
OutsideUntouched ==
    (pc = "done" /\ ranges # <<>>) =>
        /\ Slice(result, 0, FirstOpen + 1) = Slice(text, 0, FirstOpen + 1)
        /\ Len(result) >= Len(text) - LastClose
        /\ SliceFrom(result, Len(result) - (Len(text) - LastClose))
             = SliceFrom(text, LastClose)

\* C19 (open offsets stay valid): when the loop comes to a span, the buffer
\* holds "{" at its open offset and the text up to and including that brace
\* is the text that was searched, whatever the rewrites done so far did to
\* the length of the buffer.
OpenOffsetsValid ==
    pc = "rewrite" =>
        /\ At(result, ranges[idx].open) = "{"
        /\ Slice(result, 0, ranges[idx].open + 1)
             = Slice(text, 0, ranges[idx].open + 1)

\* C19 witness: the loop comes to a span after rewrites that changed the
\* length of the buffer
OpenValidAfterLengthChange ==
    /\ pc = "rewrite"
    /\ pass = 1
    /\ idx >= 2
    /\ Len(result) # Len(text)
    /\ Inside(ranges[idx - 1], ranges[idx])

\* C20 (proper nesting): any two recorded spans are disjoint or one lies
\* strictly between the braces of the other.
ProperlyNested ==
    \A j, k \in 1..Len(ranges) :
        j # k =>
            LET a == ranges[j]
                b == ranges[k]
            IN  \/ a.close < b.open
                \/ b.close < a.open
                \/ a.open < b.open /\ b.close < a.close
                \/ b.open < a.open /\ a.close < b.close

----------------------------------------------------------------------------
(* SpecRenumber: renumberMessageBody on bodies built from lines *)

\* largest number of lines of a body
MaxLines == 3

\* the lines a body is built from: the text before the tag, the tag, the
\* text after it, and what the line is
LineKinds ==
    {[pre  |-> FieldHead, tag |-> <<"9">>, post |-> <<";">>,
      kind |-> "field"],
     [pre  |-> FieldHead, tag |-> <<"1", "0">>, post |-> <<";">>,
      kind |-> "field"],
     \* a label and options: "repeated a b = 3 [x=5];"
     [pre  |-> <<"\n", "r", "e", "p", "e", "a", "t", "e", "d", " ", "a", " ",
                 "b", " ", "=", " ">>,
      tag  |-> <<"3">>, post |-> <<" ", "[", "x", "=", "5", "]", ";">>,
      kind |-> "field"],
     \* a map type: "map<k, v> m=4;"
     [pre  |-> <<"\n", "m", "a", "p", "<", "k", ",", " ", "v", ">", " ", "m",
                 "=">>,
      tag  |-> <<"4">>, post |-> <<";">>, kind |-> "field"],
     \* no tag: "a b;"
     [pre  |-> <<"\n", "a", " ", "b">>, tag |-> <<>>, post |-> <<";">>,
      kind |-> "notag"],
     \* a tag that is no number: "a b=x;"
     [pre  |-> FieldHead, tag |-> <<"x">>, post |-> <<";">>,
      kind |-> "nonnumeric"],
     \* the type on one line, "b=5;" on the next
     [pre  |-> <<"\n", "a", "\n", "b", "=">>, tag |-> <<"5">>,
      post |-> <<";">>, kind |-> "split"],
     \* a declaration in a line comment: "// z y=7;"
     [pre  |-> <<"\n", "/", "/", " ", "z", " ", "y", "=">>, tag |-> <<"7">>,
      post |-> <<";">>, kind |-> "comment"]}

LineText(l) == l.pre \o l.tag \o l.post

RECURSIVE BodyOf(_)
BodyOf(ls) == IF ls = <<>> THEN <<>> ELSE LineText(Head(ls)) \o BodyOf(Tail(ls))

InitRenumber ==
    /\ pc = "renumber"
    /\ lines \in SeqsUpTo(LineKinds, MaxLines)
    /\ body = BodyOf(lines)
    /\ newBody = <<>>
    /\ text = <<>>
    /\ openPos = 0
    /\ scan = ScanInit(0)
    /\ lastIndex = 0
    /\ ranges = <<>>
    /\ idx = 0
    /\ result = <<>>
    /\ anyChange = FALSE
    /\ pass = 0

Renumber ==
    /\ pc = "renumber"
    /\ newBody' = RenumberMessageBody(body)
    /\ pc' = "renumbered"
    /\ UNCHANGED <<text, openPos, scan, lastIndex, ranges, idx, result,
                   anyChange, body, pass, lines>>

NextRenumber == Renumber

SpecRenumber == InitRenumber /\ [][NextRenumber]_vars

\* C6 (one counter from 1): the k-th match of the body, in left-to-right
\* order, carries tag k in the new body, whatever its tag was, and there are
\* as many matches as before.
TagsFollowCounter ==
    pc = "renumbered" =>
        LET ms == FieldMatches(newBody)
        IN  /\ Len(ms) = Len(FieldMatches(body))
            /\ \A k \in 1..Len(ms) :
                  Slice(newBody, ms[k].numStart, ms[k].numEnd) = StringOf(k)

\* C6 witness: three matched lines, the first with a tag other than 1
ThreeRenumbered ==
    /\ pc = "renumbered"
    /\ Len(FieldMatches(body)) = 3
    /\ Len(lines) = 3
    /\ lines[1].tag = <<"1", "0">>
    /\ lines[3].tag = <<"4">>

RECURSIVE ExpectedFrom(_, _, _)
\* the lines with those of the kinds in M renumbered from counter on, the
\* others copied
ExpectedFrom(ls, counter, M) ==
    IF ls = <<>> THEN <<>>
    ELSE IF Head(ls).kind \in M
    THEN Head(ls).pre \o StringOf(counter) \o Head(ls).post
             \o ExpectedFrom(Tail(ls), counter + 1, M)
    ELSE LineText(Head(ls)) \o ExpectedFrom(Tail(ls), counter, M)

\* C9 as stated: a line without a tag, with a non-numeric tag or split over
\* two lines is copied and takes no counter value.
MalformedAndSplitPassThrough ==
    pc = "renumbered" => newBody = ExpectedFrom(lines, 1, {"field"})

\* C9 as amended: a line without a tag or with a non-numeric tag is copied
\* and takes no counter value; a declaration split over two lines is matched
\* and renumbered like one on a single line.
MalformedPassThrough ==
    pc = "renumbered" => newBody = ExpectedFrom(lines, 1, {"field", "split"})

\* C9 witness: a line without a tag and one with a non-numeric tag were
\* copied, and the field line after them became 1
MalformedCopied ==
    /\ pc = "renumbered"
    /\ Len(lines) = 3
    /\ lines[1].kind = "notag"
    /\ lines[2].kind = "nonnumeric"
    /\ lines[3].kind = "field"
    /\ newBody # body

----------------------------------------------------------------------------
(* SpecBrace: findMatchingBrace step by step *)

\* the characters the scanner tells apart, and one it does not
ScanAlphabet == {"{", "}", "/", "*", "\"", "'", "\\", "\n", "x"}

\* what may precede the opening brace (the scan starts at openPos)
ScanPrefixes == {<<>>, <<"\"">>}

InitBrace ==
    /\ pc = "brace"
    /\ \E p \in ScanPrefixes, r \in SeqsUpTo(ScanAlphabet, MaxScanLen) :
          /\ text = p \o <<"{">> \o r
          /\ openPos = Len(p)
    /\ scan = ScanInit(openPos)
    /\ lastIndex = 0
    /\ ranges = <<>>
    /\ idx = 0
    /\ result = <<>>
    /\ anyChange = FALSE
    /\ body = <<>>
    /\ newBody = <<>>
    /\ pass = 0
    /\ lines = <<>>

ScanLoop ==
    /\ pc = "brace"
    /\ ~scan.done
    /\ scan' = BraceStep(text, scan)
    /\ pc' = IF scan'.done THEN "braceDone" ELSE "brace"
    /\ UNCHANGED <<text, openPos, lastIndex, ranges, idx, result, anyChange,
                   body, newBody, pass, lines>>

NextBrace == ScanLoop

SpecBrace == InitBrace /\ [][NextBrace]_vars

\* C3 (comment/string immunity): a step taken in a comment or string mode
\* leaves depth alone; depth changes only in Normal mode, by +1 on "{" and
\* by -1 on "}"; a backslash read inside a string skips the quote after it,
\* and the string goes on.
CommentStringImmunity ==
    [][pc = "brace" =>
        LET ch   == At(text, scan.i)
            next == At(text, scan.i + 1)
        IN  /\ ~Normal(scan) => scan'.depth = scan.depth
            /\ scan'.depth # scan.depth =>
                  /\ Normal(scan)
                  /\ \/ ch = "{" /\ scan'.depth = scan.depth + 1
                     \/ ch = "}" /\ scan'.depth = scan.depth - 1
            /\ (scan.inDoubleQuote /\ ch = "\\" /\ next = "\"") =>
                  scan'.inDoubleQuote /\ scan'.i = scan.i + 2
            /\ (scan.inSingleQuote /\ ch = "\\" /\ next = "'") =>
                  scan'.inSingleQuote /\ scan'.i = scan.i + 2
    ]_vars

\* C3 witness: the scanner has read the "}" of {//} inside the line comment
\* and depth is still 1
BraceReadInComment ==
    /\ pc = "brace"
    /\ scan.inSingleLineComment
    /\ scan.i = openPos + 4
    /\ At(text, openPos + 1) = "/"
    /\ At(text, openPos + 2) = "/"
    /\ At(text, openPos + 3) = "}"
    /\ scan.depth = 1

\* the number of "{" less the number of "}" among t[open..j]
Excess(t, open, j) ==
    Cardinality({n \in open..j : At(t, n) = "{"})
        - Cardinality({n \in open..j : At(t, n) = "}"})

\* C4 (result of findMatchingBrace): depth is 0 on entry and at least 1 for
\* as long as the scan goes on after the opening brace, so the offset
\* returned is the first Normal-mode "}" that brings depth back to 0; -1 is
\* returned only at the end of the text, with depth never back at 0.  In a
\* text with no comment and no string after openPos, where every brace is
\* read in Normal mode, the offset is the least one after openPos at which
\* the braces balance, and -1 when there is none.
MatchingBraceResult ==
    /\ (pc = "brace" /\ scan.i = openPos) => scan.depth = 0
    /\ (pc = "brace" /\ scan.i > openPos) => scan.depth >= 1
    /\ (pc = "braceDone" /\ scan.ret # -1) =>
          /\ scan.ret > openPos
          /\ scan.ret = scan.i
          /\ At(text, scan.ret) = "}"
          /\ Normal(scan)
          /\ scan.depth = 0
    /\ (pc = "braceDone" /\ scan.ret = -1) =>
          /\ scan.i >= Len(text)
          /\ scan.depth >= 1
    /\ (/\ pc = "braceDone"
        /\ \A n \in openPos..(Len(text) - 1) :
              At(text, n) \notin {"/", "\"", "'"}) =>
          LET balanced == {j \in (openPos + 1)..(Len(text) - 1) :
                              At(text, j) = "}" /\ Excess(text, openPos, j) = 0}
          IN  IF balanced = {} THEN scan.ret = -1
              ELSE /\ scan.ret \in balanced
                   /\ \A j \in balanced : scan.ret <= j

\* C4 witness: a nested pair was skipped before the matching brace was found
NestedBraceMatched ==
    /\ pc = "braceDone"
    /\ scan.ret = openPos + 3
    /\ At(text, openPos + 1) = "{"
    /\ At(text, openPos + 2) = "}"

\* the flags of the scanner that are set
FlagsOf(s) ==
    {f \in {"inSingleLineComment", "inMultiLineComment", "inDoubleQuote",
            "inSingleQuote"} : s[f]}

\* C14 (scan-state exclusivity): at most one of the four flags is set at
\* every step, so the mode is one of Normal and the four flagged ones; a
\* step that changes the flags either starts in Normal mode and sets one
\* flag or starts with one flag and ends in Normal mode, so no mode is
\* entered from another mode or left into another one.
ScanStateExclusive ==
    /\ [](Cardinality(FlagsOf(scan)) <= 1)
    /\ [][pc = "brace" =>
            (FlagsOf(scan') # FlagsOf(scan) =>
                \/ Normal(scan) /\ Cardinality(FlagsOf(scan')) = 1
                \/ Normal(scan') /\ Cardinality(FlagsOf(scan)) = 1)
       ]_vars

\* C14 witness: the quote of {/*" was read inside the block comment, and the
\* block comment is still the one mode
QuoteReadInBlockComment ==
    /\ pc = "brace"
    /\ scan.i = openPos + 4
    /\ At(text, openPos + 1) = "/"
    /\ At(text, openPos + 2) = "*"
    /\ At(text, openPos + 3) = "\""
    /\ FlagsOf(scan) = {"inMultiLineComment"}

----------------------------------------------------------------------------
(* SpecTotal: findMatchingBrace and processProtoText, each from its entry    *)
(* to its return                                                             *)

InitTotal == Init \/ InitBrace

NextTotal == Next \/ NextBrace

SpecTotal == InitTotal /\ [][NextTotal]_vars

\* C11 (totality and termination): every iteration of the loop of
\* findMatchingBrace returns or moves the index forward, never past the end
\* of the text, and an iteration is never a no-op; every iteration of the
\* span-finding loop leaves lastIndex after the start of its match and not
\* past the end of the text, so the next match starts after this one; the
\* rewrite loop moves through the recorded spans one by one and indexes
\* nothing else.  Each loop has a bounded measure that grows at every
\* iteration, so each ends, and no step is undefined.
Totality ==
    /\ [][/\ pc = "brace" =>
                /\ scan'.done \/ scan'.i > scan.i
                /\ scan'.i <= Len(text)
                /\ scan'.done => (scan'.ret = -1 \/ scan'.ret = scan.i)
          /\ (pc = "scan" /\ pc' = "scan") =>
                LET matchStart == MsgExec(text, lastIndex)
                    nextStart  == MsgExec(text, lastIndex')
                IN  /\ matchStart >= lastIndex
                    /\ lastIndex' > matchStart
                    /\ lastIndex' <= Len(text)
                    /\ nextStart = -1 \/ nextStart > matchStart
          /\ pc = "rewrite" =>
                /\ idx' = idx + 1
                /\ pc' = "done" <=> idx' = Len(ranges) + 1
       ]_vars
    /\ [](pc = "brace" => BraceStep(text, scan) # scan)
    /\ [](pc = "rewrite" => idx \in 1..Len(ranges))
    /\ [](pc = "done" => Len(result) >= 0 /\ anyChange \in BOOLEAN)

\* C11 witness: the second run over a text with three message occurrences
\* has reached its return
SecondRunReturned ==
    /\ pc = "done"
    /\ pass = 2
    /\ Cardinality(MsgOccurrences(text)) = 3

====
